---------------------------- MODULE Spec2Model ----------------------------
(***************************************************************************)
(* SandpackProvider (react-sandpack, utils/sandpack-context.tsx): the      *)
(* provider component that owns the file set, the hidden iframe's engine   *)
(* handle (smooshpack Manager) and the codesandbox-api message listener.   *)
(*                                                                         *)
(* One action is one call of a method of the component: the constructor,   *)
(* the iframe's ref callback, a context operation, componentDidUpdate,     *)
(* componentWillUnmount, or the channel dispatching one message to every   *)
(* subscribed listener.  this.setState is applied within the action: the   *)
(* state a variable shows is the state React commits for that call.        *)
(*                                                                         *)
(* A file's code is a text, modelled as a sequence of tokens; the          *)
(* synthesized package.json is the token sequence JSON.stringify writes.   *)
(***************************************************************************)
EXTENDS Naturals, Sequences, FiniteSets, TLC

VARIABLES
    props,      \* this.props
    state,      \* this.state
    phase,      \* "new" | "failed" | "constructed" | "mounted" | "crashed" | "unmounted"
    manager,    \* this.manager is set
    listener,   \* this.listener (handleMessage) is subscribed to the channel
    requests,   \* the promises getManagerTranspilerContext returned
    delivered,  \* the messages the channel dispatched since construction
    op,         \* the call the last step made
    out         \* what that call did to the outside, in order

vars == <<props, state, phase, manager, listener, requests, delivered, op, out>>

(***************************************************************************)
(* Bounds of the model.                                                    *)
(***************************************************************************)
MaxMsgs == 3        \* messages dispatched on the channel in one behaviour
MaxRequests == 2    \* getManagerTranspilerContext calls in one behaviour

(***************************************************************************)
(* Values.                                                                 *)
(***************************************************************************)
Undefined == "<undefined>"              \* the JavaScript value undefined
NoDeps == [present |-> FALSE]           \* props.dependencies === undefined
Deps(m) == [present |-> TRUE, map |-> m]
EmptyMap == [k \in {} |-> Undefined]    \* the object {}

PackageJSON == "/package.json"
File(code) == [code |-> code]

HasKey(files, path) == path \in DOMAIN files

\* { [path]: file }, the spread of files forgotten
PutAlone(files, path, file) == [p \in {path} |-> file]

\* { ...files, [path]: file }
Put(files, path, file) ==
    [p \in DOMAIN files \cup {path} |-> IF p = path THEN file ELSE files[p]]

\* files[path]?.code
CodeAt(files, path) ==
    IF HasKey(files, path) THEN files[path].code ELSE <<Undefined>>

(***************************************************************************)
(* JSON.stringify({ name, main, dependencies }, null, 2): the tokens of    *)
(* the text, keys and values in the order the object lists them.           *)
(***************************************************************************)
RECURSIVE stringifyMap(_)
stringifyMap(m) ==
    IF DOMAIN m = {} THEN <<>>
    ELSE LET k == CHOOSE j \in DOMAIN m : TRUE
         IN  <<k, m[k]>> \o stringifyMap([j \in DOMAIN m \ {k} |-> m[j]])

JSONstringify(o) ==
    <<"{", "name", o.name, "main", o.main, "dependencies", "{">>
        \o stringifyMap(o.dependencies) \o <<"}", "}">>

(***************************************************************************)
(* createMissingPackageJSON(files, dependencies, entry): the file set      *)
(* with a package.json, or the error it throws.                            *)
(***************************************************************************)
NoDependenciesError == "No dependencies specified"
NoEntryError == "No entry specified"

Falsy(s) == s = Undefined \/ s = ""

\* createMissingPackageJSON that checks the configuration and adds nothing
createMissingPackageJSONNoSynthesis(files, dependencies, entry) ==
    IF HasKey(files, PackageJSON) THEN [ok |-> TRUE, files |-> files]
    ELSE IF ~dependencies.present THEN [ok |-> FALSE, error |-> NoDependenciesError]
    ELSE IF Falsy(entry) THEN [ok |-> FALSE, error |-> NoEntryError]
    ELSE [ok |-> TRUE, files |-> files]

\* createMissingPackageJSON that takes missing dependencies for none
createMissingPackageJSONNoDependencies(files, dependencies, entry) ==
    IF HasKey(files, PackageJSON) THEN [ok |-> TRUE, files |-> files]
    ELSE IF Falsy(entry) THEN [ok |-> FALSE, error |-> NoEntryError]
    ELSE [ok |-> TRUE,
          files |-> Put(files, PackageJSON,
                        File(JSONstringify([name |-> "run", main |-> entry,
                                            dependencies |->
                                                IF dependencies.present
                                                THEN dependencies.map
                                                ELSE EmptyMap])))]

\* createMissingPackageJSON that falls back to /index.js for a missing entry
createMissingPackageJSONDefaultEntry(files, dependencies, entry) ==
    IF HasKey(files, PackageJSON) THEN [ok |-> TRUE, files |-> files]
    ELSE IF ~dependencies.present THEN [ok |-> FALSE, error |-> NoDependenciesError]
    ELSE [ok |-> TRUE,
          files |-> Put(files, PackageJSON,
                        File(JSONstringify([name |-> "run",
                                            main |-> IF Falsy(entry) THEN "/index.js"
                                                     ELSE entry,
                                            dependencies |-> dependencies.map])))]

\* createMissingPackageJSON that writes its descriptor over a supplied one
createMissingPackageJSONOverwrite(files, dependencies, entry) ==
    IF ~dependencies.present
    THEN IF HasKey(files, PackageJSON) THEN [ok |-> TRUE, files |-> files]
         ELSE [ok |-> FALSE, error |-> NoDependenciesError]
    ELSE IF Falsy(entry)
    THEN IF HasKey(files, PackageJSON) THEN [ok |-> TRUE, files |-> files]
         ELSE [ok |-> FALSE, error |-> NoEntryError]
    ELSE [ok |-> TRUE,
          files |-> Put(files, PackageJSON,
                        File(JSONstringify([name |-> "run", main |-> entry,
                                            dependencies |-> dependencies.map])))]

createMissingPackageJSON(files, dependencies, entry) ==
    IF HasKey(files, PackageJSON) THEN [ok |-> TRUE, files |-> files]
    ELSE IF ~dependencies.present THEN [ok |-> FALSE, error |-> NoDependenciesError]
    ELSE IF Falsy(entry) THEN [ok |-> FALSE, error |-> NoEntryError]
    ELSE [ok |-> TRUE,
          files |-> Put(files, PackageJSON,
                        File(JSONstringify([name |-> "run", main |-> entry,
                                            dependencies |-> dependencies.map])))]

\* a || b || c
OrElse(a, b) == IF Falsy(a) THEN b ELSE a

(***************************************************************************)
(* handleMessage(m): the state after the setState the message causes.      *)
(***************************************************************************)
ModuleError(m) ==
    [title |-> m.title, path |-> m.path, message |-> m.message,
     line |-> m.line, column |-> m.column]

\* handleMessage that puts a new error in front of the earlier ones
handleMessagePrepend(st, m) ==
    IF m.type = "state" THEN [st EXCEPT !.managerState = m.state]
    ELSE IF m.type = "start" THEN [st EXCEPT !.errors = <<>>]
    ELSE IF m.type = "status" THEN [st EXCEPT !.status = m.status]
    ELSE IF m.type = "action" /\ m.action = "show-error"
         THEN [st EXCEPT !.errors = <<ModuleError(m)>> \o st.errors]
    ELSE st

\* handleMessage that takes every message it does not know for a new build
handleMessageResetOnUnknown(st, m) ==
    IF m.type = "state" THEN [st EXCEPT !.managerState = m.state]
    ELSE IF m.type = "status" THEN [st EXCEPT !.status = m.status]
    ELSE IF m.type = "action" /\ m.action = "show-error"
         THEN [st EXCEPT !.errors = Append(st.errors, ModuleError(m))]
    ELSE [st EXCEPT !.errors = <<>>]

\* handleMessage whose state branch also resets the status
handleMessageStateResetsStatus(st, m) ==
    IF m.type = "state"
    THEN [st EXCEPT !.managerState = m.state, !.status = "initializing"]
    ELSE IF m.type = "start" THEN [st EXCEPT !.errors = <<>>]
    ELSE IF m.type = "status" THEN [st EXCEPT !.status = m.status]
    ELSE IF m.type = "action" /\ m.action = "show-error"
         THEN [st EXCEPT !.errors = Append(st.errors, ModuleError(m))]
    ELSE st

\* handleMessage without its start branch
handleMessageNoStart(st, m) ==
    IF m.type = "state" THEN [st EXCEPT !.managerState = m.state]
    ELSE IF m.type = "status" THEN [st EXCEPT !.status = m.status]
    ELSE IF m.type = "action" /\ m.action = "show-error"
         THEN [st EXCEPT !.errors = Append(st.errors, ModuleError(m))]
    ELSE st

handleMessage(st, m) ==
    IF m.type = "state" THEN [st EXCEPT !.managerState = m.state]
    ELSE IF m.type = "start" THEN [st EXCEPT !.errors = <<>>]
    ELSE IF m.type = "status" THEN [st EXCEPT !.status = m.status]
    ELSE IF m.type = "action" /\ m.action = "show-error"
         THEN [st EXCEPT !.errors = Append(st.errors, ModuleError(m))]
    ELSE st

(***************************************************************************)
(* getOptions()                                                            *)
(***************************************************************************)
getOptions(p) ==
    [bundlerURL |-> p.bundlerURL, fileResolver |-> p.fileResolver,
     skipEval |-> p.skipEval]

(***************************************************************************)
(* updateFiles(files): the state it sets and the calls it makes, under     *)
(* props p and with or without an engine handle.                           *)
(***************************************************************************)
updateFilesState(st, files) == [st EXCEPT !.files = files]

onFileChangeCalls(p, files) ==
    IF p.onFileChange THEN <<[call |-> "onFileChange", files |-> files]>> ELSE <<>>

\* updateFiles without its test of this.manager
updatePreviewCallsUnguarded(p, mgr, files) ==
    <<[call |-> "updatePreview", files |-> files, template |-> p.template,
       showOpenInCodeSandbox |-> p.showOpenInCodeSandbox]>>

updatePreviewCalls(p, mgr, files) ==
    IF mgr
    THEN <<[call |-> "updatePreview", files |-> files, template |-> p.template,
            showOpenInCodeSandbox |-> p.showOpenInCodeSandbox]>>
    ELSE <<>>

\* updateFiles that sends the preview update and forgets the change callback
updateFilesCallsNoCallback(p, mgr, files) == updatePreviewCalls(p, mgr, files)

updateFilesCalls(p, mgr, files) ==
    onFileChangeCalls(p, files) \o updatePreviewCalls(p, mgr, files)

(***************************************************************************)
(* The initial state: a component about to be constructed with props p.    *)
(***************************************************************************)
NoState ==
    [files |-> EmptyMap, browserPath |-> Undefined, openedPath |-> Undefined,
     iframe |-> "null", managerState |-> Undefined, errors |-> <<>>,
     status |-> Undefined]

InitWith(P) ==
    /\ props \in P
    /\ state = NoState
    /\ phase = "new"
    /\ manager = FALSE
    /\ listener = FALSE
    /\ requests = <<>>
    /\ delivered = <<>>
    /\ op = [name |-> "none"]
    /\ out = <<>>

(***************************************************************************)
(* constructor(props)                                                      *)
(***************************************************************************)
\* an initial state that prefers the entry to the openedPath prop
initialStateEntryFirst(p, files) ==
    [files |-> files,
     browserPath |-> OrElse(p.initialPath, "/"),
     openedPath |-> OrElse(p.entry, OrElse(p.openedPath, "/index.js")),
     iframe |-> "null",
     managerState |-> Undefined,
     errors |-> <<>>,
     status |-> "initializing"]

initialState(p, files) ==
    [files |-> files,
     browserPath |-> OrElse(p.initialPath, "/"),
     openedPath |-> OrElse(p.openedPath, OrElse(p.entry, "/index.js")),
     iframe |-> "null",
     managerState |-> Undefined,
     errors |-> <<>>,
     status |-> "initializing"]

Construct ==
    /\ phase = "new"
    /\ LET r == createMissingPackageJSON(props.files, props.dependencies, props.entry)
       IN  IF r.ok
           THEN /\ state' = initialState(props, r.files)
                /\ listener' = TRUE
                /\ phase' = "constructed"
                /\ out' = <<[call |-> "listen", callback |-> "handleMessage"]>>
           ELSE /\ phase' = "failed"
                /\ out' = <<[call |-> "throw", error |-> r.error]>>
                /\ UNCHANGED <<state, listener>>
    /\ op' = [name |-> "constructor"]
    /\ UNCHANGED <<props, manager, requests, delivered>>

(***************************************************************************)
(* setupFrame(el): the ref callback of the hidden iframe, at its mount.    *)
(* (At unmount React calls it with null, which does nothing.)              *)
(***************************************************************************)
SetupFrame ==
    /\ phase = "constructed"
    /\ manager' = TRUE
    /\ state' = [state EXCEPT !.iframe = "el"]
    /\ phase' = "mounted"
    /\ op' = [name |-> "setupFrame"]
    /\ out' = <<[call |-> "new Manager",
                 files |-> props.files, dependencies |-> props.dependencies,
                 entry |-> props.entry, template |-> props.template,
                 showOpenInCodeSandbox |-> props.showOpenInCodeSandbox,
                 options |-> getOptions(props)]>>
    /\ UNCHANGED <<props, listener, requests, delivered>>

Alive == phase \in {"constructed", "mounted"}

(***************************************************************************)
(* updateFiles(files), called through the context.                         *)
(***************************************************************************)
UpdateFiles(files) ==
    /\ Alive
    /\ state' = updateFilesState(state, files)
    /\ out' = updateFilesCalls(props, manager, files)
    /\ op' = [name |-> "updateFiles", files |-> files]
    /\ UNCHANGED <<props, phase, manager, listener, requests, delivered>>

(***************************************************************************)
(* updateCurrentFile(file)                                                 *)
(***************************************************************************)
\* updateCurrentFile without its short circuit
codeDiffersAlways(file, st) == TRUE

codeDiffers(file, st) == file.code # CodeAt(st.files, st.openedPath)

UpdateCurrentFile(file) ==
    /\ Alive
    /\ IF codeDiffers(file, state)
       THEN LET files == Put(state.files, state.openedPath, file)
            IN  /\ state' = updateFilesState(state, files)
                /\ out' = updateFilesCalls(props, manager, files)
       ELSE /\ out' = <<>>
            /\ UNCHANGED state
    /\ op' = [name |-> "updateCurrentFile", file |-> file]
    /\ UNCHANGED <<props, phase, manager, listener, requests, delivered>>

(***************************************************************************)
(* openFile(path)                                                          *)
(***************************************************************************)
\* openFile that opens only a path the file mapping has
OpenFileExisting(path) ==
    /\ Alive
    /\ state' = IF HasKey(state.files, path)
                THEN [state EXCEPT !.openedPath = path] ELSE state
    /\ out' = <<>>
    /\ op' = [name |-> "openFile", path |-> path]
    /\ UNCHANGED <<props, phase, manager, listener, requests, delivered>>

OpenFile(path) ==
    /\ Alive
    /\ state' = [state EXCEPT !.openedPath = path]
    /\ out' = <<>>
    /\ op' = [name |-> "openFile", path |-> path]
    /\ UNCHANGED <<props, phase, manager, listener, requests, delivered>>

(***************************************************************************)
(* componentDidUpdate(prevProps), run after a render with the props p.     *)
(* filesChanged and dependenciesChanged are the outcomes of the reference   *)
(* comparisons prevProps.files !== this.props.files and                    *)
(* prevProps.dependencies !== this.props.dependencies.                     *)
(***************************************************************************)
\* a comparison that also resynchronizes when skipEval changes
propsChangedAny(prev, p, filesChanged, dependenciesChanged) ==
    \/ filesChanged
    \/ dependenciesChanged
    \/ prev.entry # p.entry
    \/ prev.template # p.template
    \/ prev.skipEval # p.skipEval

\* a comparison that misses a change of the template
propsChangedNoTemplate(prev, p, filesChanged, dependenciesChanged) ==
    \/ filesChanged
    \/ dependenciesChanged
    \/ prev.entry # p.entry

propsChanged(prev, p, filesChanged, dependenciesChanged) ==
    \/ filesChanged
    \/ dependenciesChanged
    \/ prev.entry # p.entry
    \/ prev.template # p.template

updateOptionsCalls(prev, p, mgr) ==
    IF mgr /\ p.skipEval # prev.skipEval
    THEN <<[call |-> "updateOptions", options |-> getOptions(p)]>>
    ELSE <<>>

ComponentDidUpdate(p, filesChanged, dependenciesChanged) ==
    /\ phase = "mounted"
    /\ p.files # props.files => filesChanged
    /\ p.dependencies # props.dependencies => dependenciesChanged
    /\ props' = p
    /\ LET changed == propsChanged(props, p, filesChanged, dependenciesChanged)
           r == createMissingPackageJSON(p.files, p.dependencies, p.entry)
       IN  /\ IF changed /\ ~r.ok
              THEN /\ phase' = "crashed"
                   /\ out' = <<[call |-> "throw", error |-> r.error]>>
                   /\ UNCHANGED state
              ELSE /\ phase' = phase
                   /\ state' = IF changed THEN updateFilesState(state, r.files)
                               ELSE state
                   /\ out' = (IF changed THEN updateFilesCalls(p, manager, r.files)
                              ELSE <<>>)
                             \o updateOptionsCalls(props, p, manager)
           /\ op' = [name |-> "componentDidUpdate",
                     resync |-> changed,
                     filesChanged |-> filesChanged,
                     dependenciesChanged |-> dependenciesChanged,
                     entryChanged |-> props.entry # p.entry,
                     templateChanged |-> props.template # p.template,
                     skipEvalChanged |-> props.skipEval # p.skipEval]
    /\ UNCHANGED <<manager, listener, requests, delivered>>

(***************************************************************************)
(* componentWillUnmount()                                                  *)
(***************************************************************************)
\* componentWillUnmount that leaves the listener subscribed
ComponentWillUnmountKeepListener ==
    /\ phase \in {"mounted", "crashed"}
    /\ phase' = "unmounted"
    /\ op' = [name |-> "componentWillUnmount"]
    /\ out' = <<>>
    /\ UNCHANGED <<props, state, manager, listener, requests, delivered>>

ComponentWillUnmount ==
    /\ phase \in {"mounted", "crashed"}
    /\ listener' = FALSE
    /\ phase' = "unmounted"
    /\ op' = [name |-> "componentWillUnmount"]
    /\ out' = <<[call |-> "unlisten", callback |-> "handleMessage"]>>
    /\ UNCHANGED <<props, state, manager, requests, delivered>>

(***************************************************************************)
(* getManagerTranspilerContext(): a new promise with its own listener.     *)
(***************************************************************************)
newRequest == [status |-> "pending", data |-> Undefined, listening |-> TRUE,
               resolves |-> 0]

dispatchCalls(mgr) ==
    IF mgr THEN <<[call |-> "dispatch", type |-> "get-transpiler-context"]>>
    ELSE <<>>

GetManagerTranspilerContext ==
    /\ Alive
    /\ Len(requests) < MaxRequests
    /\ requests' = Append(requests, newRequest)
    /\ out' = <<[call |-> "listen", callback |-> "transpiler-context"]>>
                \o dispatchCalls(manager)
    /\ op' = [name |-> "getManagerTranspilerContext"]
    /\ UNCHANGED <<props, state, phase, manager, listener, delivered>>

\* a promise's listener that does not look at the message's type
requestListenerAnyMessage(r, m) ==
    IF r.listening
    THEN [status |-> "resolved",
          data |-> IF r.status = "pending"
                   THEN (IF m.type = "transpiler-context" THEN m.data ELSE Undefined)
                   ELSE r.data,
          listening |-> FALSE,
          resolves |-> r.resolves + 1]
    ELSE r

\* a promise's listener that resolves and stays subscribed
requestListenerStaysSubscribed(r, m) ==
    IF r.listening /\ m.type = "transpiler-context"
    THEN [status |-> "resolved",
          data |-> IF r.status = "pending" THEN m.data ELSE r.data,
          listening |-> TRUE,
          resolves |-> r.resolves + 1]
    ELSE r

\* the promise's listener, called with message m
requestListener(r, m) ==
    IF r.listening /\ m.type = "transpiler-context"
    THEN [status |-> "resolved",
          data |-> IF r.status = "pending" THEN m.data ELSE r.data,
          listening |-> FALSE,
          resolves |-> r.resolves + 1]
    ELSE r

(***************************************************************************)
(* The channel dispatches message m to every subscribed listener.          *)
(***************************************************************************)
Deliver(m) ==
    /\ phase \in {"constructed", "mounted", "crashed", "unmounted"}
    /\ Len(delivered) < MaxMsgs
    /\ state' = IF listener THEN handleMessage(state, m) ELSE state
    /\ requests' = [i \in DOMAIN requests |-> requestListener(requests[i], m)]
    /\ delivered' = Append(delivered, [m |-> m, handled |-> listener])
    /\ op' = [name |-> "message", m |-> m]
    /\ out' = <<>>
    /\ UNCHANGED <<props, phase, manager, listener>>

(***************************************************************************)
(* Inputs.                                                                 *)
(***************************************************************************)
CodeA == <<"a">>
CodeB == <<"b">>
UserPackage == File(<<"{", "name", "app", "main", "/index.js", "}">>)

OnlyIndex == "/index.js" :> File(CodeA)
WithPackage == OnlyIndex @@ PackageJSON :> UserPackage
EditedIndex == "/index.js" :> File(CodeB)
TwoFiles == WithPackage @@ "/App.js" :> File(CodeB)

ReactDeps == Deps("react" :> "16.8.0")
TwoDeps == Deps("react" :> "16.8.0" @@ "vue" :> "2.6.0")

PropsOver(Files, Dependencies, Entries, Templates, SkipEvals, Callbacks, OpenedPaths) ==
    [files : Files, dependencies : Dependencies, entry : Entries,
     template : Templates, skipEval : SkipEvals, onFileChange : Callbacks,
     openedPath : OpenedPaths, initialPath : {Undefined},
     showOpenInCodeSandbox : {Undefined}, bundlerURL : {Undefined},
     fileResolver : {Undefined}]

ShowError(line) ==
    [type |-> "action", action |-> "show-error", title |-> "SyntaxError",
     path |-> "/index.js", message |-> "Unexpected token", line |-> line,
     column |-> 1]
Start == [type |-> "start"]
Status(s) == [type |-> "status", status |-> s]
ManagerStateMsg(s) == [type |-> "state", state |-> s]
TranspilerContext(d) == [type |-> "transpiler-context", data |-> d]

(***************************************************************************)
(* Spec: the context operations, property changes and messages of one      *)
(* provider.                                                               *)
(***************************************************************************)
MainProps ==
    PropsOver({OnlyIndex, WithPackage}, {ReactDeps}, {"/index.js"}, {Undefined},
              {FALSE}, {FALSE, TRUE}, {Undefined})
MainFileSets == {EditedIndex, TwoFiles}
MainFiles == {File(CodeA), File(CodeB)}
MainPaths == {"/index.js", "/package.json", "/missing.js"}
MainMsgs == {Start, ShowError(1)}

Init == InitWith(MainProps)

Next ==
    \/ Construct
    \/ SetupFrame
    \/ \E files \in MainFileSets : UpdateFiles(files)
    \/ \E file \in MainFiles : UpdateCurrentFile(file)
    \/ \E path \in MainPaths : OpenFile(path)
    \/ \E p \in MainProps, fc, dc \in BOOLEAN : ComponentDidUpdate(p, fc, dc)
    \/ \E m \in MainMsgs : Deliver(m)
    \/ ComponentWillUnmount

Spec == Init /\ [][Next]_vars

(***************************************************************************)
(* SpecConfig: construction and mount over every configuration.            *)
(***************************************************************************)
ConfigProps ==
    PropsOver({OnlyIndex, WithPackage, EditedIndex, TwoFiles},
              {NoDeps, Deps(EmptyMap), ReactDeps, TwoDeps},
              {Undefined, "", "/index.js", "/App.js"},
              {Undefined, "vue-cli"}, {FALSE, TRUE}, {FALSE, TRUE},
              {Undefined, "", "/App.js"})

InitConfig == InitWith(ConfigProps)

NextConfig ==
    \/ Construct
    \/ SetupFrame

SpecConfig == InitConfig /\ [][NextConfig]_vars

(***************************************************************************)
(* SpecUpdate: property changes of a mounted provider, between edits.      *)
(***************************************************************************)
UpdateProps ==
    PropsOver({OnlyIndex, WithPackage}, {NoDeps, ReactDeps},
              {Undefined, "/index.js"}, {Undefined, "vue-cli"},
              {FALSE, TRUE}, {FALSE, TRUE}, {Undefined})

InitUpdate == InitWith(UpdateProps)

NextUpdate ==
    \/ Construct
    \/ SetupFrame
    \/ UpdateFiles(EditedIndex)
    \/ UpdateCurrentFile(File(CodeB))
    \/ \E p \in UpdateProps, fc, dc \in BOOLEAN : ComponentDidUpdate(p, fc, dc)
    \/ ComponentWillUnmount

SpecUpdate == InitUpdate /\ [][NextUpdate]_vars

(***************************************************************************)
(* SpecChannel: the messages handleMessage receives, between operations of *)
(* the provider.                                                           *)
(***************************************************************************)
ChannelProps ==
    PropsOver({OnlyIndex}, {ReactDeps}, {"/index.js"}, {Undefined},
              {FALSE}, {TRUE}, {Undefined})
ChannelMsgs ==
    {Start, ShowError(1), ShowError(2), Status("idle"), ManagerStateMsg("s1"),
     [type |-> "action", action |-> "notification"], [type |-> "done"],
     TranspilerContext("t1")}

InitChannel == InitWith(ChannelProps)

NextChannel ==
    \/ Construct
    \/ SetupFrame
    \/ UpdateFiles(EditedIndex)
    \/ UpdateCurrentFile(File(CodeA))
    \/ OpenFile("/App.js")
    \/ \E p \in ChannelProps : ComponentDidUpdate(p, TRUE, FALSE)
    \/ \E m \in ChannelMsgs : Deliver(m)
    \/ ComponentWillUnmount

SpecChannel == InitChannel /\ [][NextChannel]_vars

(***************************************************************************)
(* SpecRequests: getManagerTranspilerContext requests and the messages     *)
(* that answer them.                                                       *)
(***************************************************************************)
RequestMsgs == {TranspilerContext("t1"), TranspilerContext("t2"), Start}

NextRequests ==
    \/ Construct
    \/ SetupFrame
    \/ GetManagerTranspilerContext
    \/ \E m \in RequestMsgs : Deliver(m)
    \/ UpdateFiles(EditedIndex)
    \/ ComponentWillUnmount

SpecRequests == InitChannel /\ [][NextRequests]_vars

(***************************************************************************)
(* Properties.                                                             *)
(***************************************************************************)
CallsNamed(calls, name) == SelectSeq(calls, LAMBDA c : c.call = name)

Constructed == phase \in {"constructed", "mounted", "crashed", "unmounted"}

\* the change callback was invoked once, with files first, if it is configured
ChangeCallbackOnce(calls, p, files) ==
    IF p.onFileChange
    THEN /\ Len(CallsNamed(calls, "onFileChange")) = 1
         /\ CallsNamed(calls, "onFileChange")[1].files = files
    ELSE CallsNamed(calls, "onFileChange") = <<>>

(* C1 as stated: every updateFiles(newFiles) call makes exactly one        *)
(* updatePreview call and, if a change callback is configured, exactly one *)
(* change-callback invocation with newFiles.                               *)
C1_AlwaysOnePreview ==
    op.name = "updateFiles" =>
        /\ Len(CallsNamed(out, "updatePreview")) = 1
        /\ ChangeCallbackOnce(out, props, op.files)

(* C1, amended: an updateFiles(newFiles) call makes exactly one            *)
(* updatePreview call, carrying newFiles, if the engine handle exists and  *)
(* none if it does not (before the hidden iframe has mounted); in both     *)
(* cases it invokes the change callback exactly once with newFiles if one  *)
(* is configured, and not otherwise.                                       *)
C1_OnePreviewIfManager ==
    op.name = "updateFiles" =>
        /\ Len(CallsNamed(out, "updatePreview")) = (IF manager THEN 1 ELSE 0)
        /\ \A i \in DOMAIN out :
              out[i].call = "updatePreview" => out[i].files = op.files
        /\ ChangeCallbackOnce(out, props, op.files)

C1_Witness ==
    /\ op.name = "updateFiles"
    /\ manager
    /\ props.onFileChange
    /\ Len(out) = 2
    /\ delivered # <<>>

\* the messages handleMessage was called with, in arrival order
Received ==
    LET h == SelectSeq(delivered, LAMBDA d : d.handled)
    IN  [i \in DOMAIN h |-> h[i].m]

\* the index of the last start message of ms, 0 if it has none
LastStart(ms) ==
    LET S == {i \in DOMAIN ms : ms[i].type = "start"}
    IN  IF S = {} THEN 0 ELSE CHOOSE i \in S : \A j \in S : j <= i

IsShowError(m) == m.type = "action" /\ m.action = "show-error"

ErrorsSinceStart(ms) ==
    LET tail == SubSeq(ms, LastStart(ms) + 1, Len(ms))
        shown == SelectSeq(tail, IsShowError)
    IN  [i \in DOMAIN shown |->
            [title |-> shown[i].title, path |-> shown[i].path,
             message |-> shown[i].message, line |-> shown[i].line,
             column |-> shown[i].column]]

(* C2: whatever messages and operations have occurred, the error sequence  *)
(* is the show-error messages received since the most recent start (since  *)
(* construction if there was none), one entry per message, in arrival      *)
(* order.                                                                  *)
C2_ErrorsSinceStart ==
    Constructed => state.errors = ErrorsSinceStart(Received)

C2_Witness ==
    /\ Len(delivered) = 3
    /\ delivered[1].m = Start
    /\ delivered[2].m = ShowError(2)
    /\ delivered[3].m = ShowError(1)
    /\ Len(state.errors) = 2
    /\ state.errors[1].line = 2
    /\ state.errors[2].line = 1
    /\ op.name = "message"
    /\ state.files = EditedIndex

\* the last step was handleMessage called with a message of this type
Handled(type) ==
    /\ op.name = "message"
    /\ op.m.type = type
    /\ delivered[Len(delivered)].handled

(* C3: in the state right after handleMessage handled a start message the  *)
(* error sequence is empty, whatever it held before.                       *)
C3_StartClearsErrors ==
    Handled("start") => state.errors = <<>>

C3_Witness ==
    /\ Handled("start")
    /\ Len(delivered) = 3
    /\ IsShowError(delivered[1].m) /\ delivered[1].handled
    /\ IsShowError(delivered[2].m) /\ delivered[2].handled
    /\ state.errors = <<>>

\* the step is updateCurrentFile(file) with the code the open file has
SameCodeCall ==
    /\ op'.name = "updateCurrentFile"
    /\ Alive
    /\ HasKey(state.files, state.openedPath)
    /\ op'.file.code = state.files[state.openedPath].code

(* C4: updateCurrentFile(file) with file.code equal to the code of the     *)
(* file stored at the open path changes nothing of the state and makes no  *)
(* updatePreview call and no change-callback invocation.                   *)
C4_SameCodeNoEffect ==
    [][SameCodeCall =>
          /\ state' = state
          /\ out' = <<>>
          /\ UNCHANGED <<props, phase, manager, listener, requests, delivered>>]_vars

C4_Witness ==
    /\ op.name = "updateCurrentFile"
    /\ HasKey(state.files, state.openedPath)
    /\ op.file.code = state.files[state.openedPath].code
    /\ out = <<>>
    /\ manager
    /\ props.onFileChange
    /\ state.files = EditedIndex

HasPackageJSON == HasKey(state.files, PackageJSON)

(* C5 as stated: in every state after a successful construction the file   *)
(* mapping has the key /package.json.                                      *)
C5_AlwaysPackageJSON ==
    Constructed => HasPackageJSON

(* C5, amended: construction and every property-change resynchronization   *)
(* leave a file mapping with the key /package.json; updateCurrentFile,     *)
(* openFile, inbound messages and every other step keep the key if it is   *)
(* there; updateFiles(newFiles) leaves the key exactly if newFiles has it. *)
(* So the key can be missing only after an updateFiles call whose file set *)
(* lacks it.                                                               *)
C5_PackageJSONUnlessUpdateFiles ==
    [][/\ (op'.name = "constructor" /\ phase' = "constructed") => HasPackageJSON'
       /\ (op'.name = "componentDidUpdate" /\ op'.resync /\ phase' = "mounted")
             => HasPackageJSON'
       /\ op'.name = "updateFiles"
             => (HasPackageJSON' <=> HasKey(op'.files, PackageJSON))
       /\ (op'.name # "updateFiles" /\ HasPackageJSON) => HasPackageJSON']_vars

C5_Witness ==
    /\ op.name = "updateCurrentFile"
    /\ state.openedPath = PackageJSON
    /\ HasPackageJSON
    /\ state.files[PackageJSON] = op.file
    /\ out # <<>>

\* the step is componentDidUpdate after a render that changed skipEval alone
OnlySkipEvalChanged(o) ==
    /\ o.name = "componentDidUpdate"
    /\ o.skipEvalChanged
    /\ ~o.filesChanged
    /\ ~o.dependenciesChanged
    /\ ~o.entryChanged
    /\ ~o.templateChanged

(* C6: a property update that changes skipEval and leaves files,           *)
(* dependencies, entry and template as they were makes one updateOptions   *)
(* call carrying the new skipEval, no updatePreview call and no            *)
(* change-callback invocation, and leaves the stored files unchanged.      *)
C6_SkipEvalOnlyUpdatesOptions ==
    [][OnlySkipEvalChanged(op') =>
          /\ Len(out') = 1
          /\ out'[1].call = "updateOptions"
          /\ out'[1].options.skipEval = props'.skipEval
          /\ props'.skipEval # props.skipEval
          /\ state'.files = state.files
          /\ state' = state]_vars

C6_Witness ==
    /\ OnlySkipEvalChanged(op)
    /\ Len(out) = 1
    /\ out[1].call = "updateOptions"
    /\ out[1].options.skipEval = TRUE
    /\ props.onFileChange
    /\ state.files = EditedIndex

\* the configuration has no package.json and no dependencies or no entry
MissingConfiguration(p) ==
    /\ ~HasKey(p.files, PackageJSON)
    /\ (~p.dependencies.present \/ p.entry = Undefined)

(* C7: constructing the provider with files that have no /package.json and *)
(* with dependencies or entry missing throws the configuration error and   *)
(* nothing else happens, then or later: no listener is subscribed, no      *)
(* engine handle is constructed, no engine call is made.                   *)
C7_MissingConfigurationFails ==
    (phase # "new" /\ MissingConfiguration(props)) =>
        /\ phase = "failed"
        /\ op.name = "constructor"
        /\ Len(out) = 1
        /\ out[1].call = "throw"
        /\ out[1].error \in {NoDependenciesError, NoEntryError}
        /\ ~listener
        /\ ~manager
        /\ state = NoState

C7_Witness ==
    /\ phase = "failed"
    /\ ~HasKey(props.files, PackageJSON)
    /\ props.dependencies.present
    /\ props.entry = Undefined
    /\ out = <<[call |-> "throw", error |-> NoEntryError]>>

(***************************************************************************)
(* JSON.parse of a descriptor's text, to read back what was written.       *)
(***************************************************************************)
RECURSIVE parseMap(_)
parseMap(tokens) ==
    IF Len(tokens) < 2 THEN EmptyMap
    ELSE (tokens[1] :> tokens[2]) @@ parseMap(SubSeq(tokens, 3, Len(tokens)))

WellFormed(text) ==
    /\ Len(text) >= 9
    /\ (Len(text) - 9) % 2 = 0
    /\ text[1] = "{" /\ text[2] = "name" /\ text[4] = "main"
    /\ text[6] = "dependencies" /\ text[7] = "{"
    /\ text[Len(text) - 1] = "}" /\ text[Len(text)] = "}"

JSONparse(text) ==
    [name |-> text[3], main |-> text[5],
     dependencies |-> parseMap(SubSeq(text, 8, Len(text) - 2))]

\* result is files plus a descriptor naming entry and dependencies
IsSynthesisOf(result, files, dependencies, entry) ==
    /\ DOMAIN result = DOMAIN files \cup {PackageJSON}
    /\ \A path \in DOMAIN files : result[path] = files[path]
    /\ WellFormed(result[PackageJSON].code)
    /\ JSONparse(result[PackageJSON].code).main = entry
    /\ JSONparse(result[PackageJSON].code).dependencies = dependencies.map

\* what createMissingPackageJSON is to return for props p with this entry
ReturnsDescriptor(p) ==
    /\ phase = "constructed"
    /\ IF HasKey(p.files, PackageJSON)
       THEN state.files = p.files
       ELSE IsSynthesisOf(state.files, p.files, p.dependencies, p.entry)

(* C8 as stated: for every file set without /package.json and every        *)
(* supplied dependencies and entry, createMissingPackageJSON returns the   *)
(* input plus a descriptor with main = entry and dependencies = the        *)
(* supplied mapping; for a file set with /package.json it returns the      *)
(* input.                                                                  *)
C8_EverySuppliedEntry ==
    (/\ op.name = "constructor"
     /\ \/ HasKey(props.files, PackageJSON)
        \/ props.dependencies.present /\ props.entry # Undefined)
        => ReturnsDescriptor(props)

(* C8, amended: the same for every supplied dependencies mapping and every *)
(* non-empty entry; an empty entry string is treated as no entry.          *)
C8_EveryNonEmptyEntry ==
    (/\ op.name = "constructor"
     /\ \/ HasKey(props.files, PackageJSON)
        \/ props.dependencies.present /\ props.entry \notin {Undefined, ""})
        => ReturnsDescriptor(props)

C8_Witness ==
    /\ op.name = "constructor"
    /\ props.files = EditedIndex
    /\ props.dependencies = TwoDeps
    /\ props.entry = "/App.js"
    /\ JSONparse(state.files[PackageJSON].code).main = "/App.js"
    /\ JSONparse(state.files[PackageJSON].code).dependencies
          = ("react" :> "16.8.0" @@ "vue" :> "2.6.0")
    /\ state.files["/index.js"] = File(CodeB)

\* request i is answered in this step
Answered(i) ==
    /\ i \in DOMAIN requests
    /\ requests[i].status = "pending"
    /\ requests'[i].status # "pending"

(* C9: a getManagerTranspilerContext request never rejects; it starts      *)
(* pending, also when no engine handle exists and no dispatch is sent; it  *)
(* leaves pending only in a step that delivers a transpiler-context        *)
(* message, resolving with that message's data; once resolved it is never  *)
(* resolved again and keeps its data.  Nothing else ends a pending         *)
(* request: no timeout, no cancellation.                                   *)
C9_ResolvesOnlyOnTranspilerContext ==
    [][\A i \in DOMAIN requests' :
          /\ requests'[i].status \in {"pending", "resolved"}
          /\ i \notin DOMAIN requests =>
                /\ op'.name = "getManagerTranspilerContext"
                /\ requests'[i].status = "pending"
                /\ requests'[i].listening
                /\ (CallsNamed(out', "dispatch") # <<>>) <=> manager
          /\ Answered(i) =>
                /\ op'.name = "message"
                /\ op'.m.type = "transpiler-context"
                /\ requests'[i].status = "resolved"
                /\ requests'[i].data = op'.m.data
                /\ requests'[i].resolves = 1
          /\ (i \in DOMAIN requests /\ requests[i].status = "resolved") =>
                requests'[i] = requests[i]]_vars

C9_Witness ==
    /\ Len(requests) = 2
    /\ ~manager
    /\ requests[1].status = "resolved"
    /\ requests[1].data = "t2"
    /\ requests[1].resolves = 1
    /\ requests[2].status = "pending"
    /\ Len(delivered) = MaxMsgs
    /\ delivered[1].m = Start
    /\ delivered[3].m = Start

\* the step is componentDidUpdate after a render that changed one of the
\* four synchronized props
SyncPropsChanged(o) ==
    /\ o.name = "componentDidUpdate"
    /\ \/ o.filesChanged
       \/ o.dependenciesChanged
       \/ o.entryChanged
       \/ o.templateChanged

\* the full update path ran with the new props' files plus the descriptor
Resynchronized ==
    /\ IF HasKey(props.files, PackageJSON)
       THEN state.files = props.files
       ELSE IsSynthesisOf(state.files, props.files, props.dependencies, props.entry)
    /\ ChangeCallbackOnce(out, props, state.files)
    /\ Len(CallsNamed(out, "updatePreview")) = 1
    /\ CallsNamed(out, "updatePreview")[1].files = state.files
    /\ CallsNamed(out, "updatePreview")[1].template = props.template

(* C10 as stated: a property update that changes files, dependencies,      *)
(* entry or template stores the new props' files plus the descriptor,      *)
(* invokes the change callback once if configured and sends one            *)
(* updatePreview with those files.                                         *)
C10_AlwaysResynchronized ==
    SyncPropsChanged(op) => Resynchronized

(* C10, amended: the same, provided the new props have a /package.json or  *)
(* both dependencies and a non-empty entry; with any other new props the   *)
(* update throws the configuration error instead.                          *)
C10_ResynchronizedIfConfigured ==
    (/\ SyncPropsChanged(op)
     /\ \/ HasKey(props.files, PackageJSON)
        \/ props.dependencies.present /\ ~Falsy(props.entry))
        => Resynchronized

C10_Witness ==
    /\ SyncPropsChanged(op)
    /\ ~op.filesChanged /\ ~op.dependenciesChanged /\ ~op.entryChanged
    /\ props.template = "vue-cli"
    /\ props.files = OnlyIndex
    /\ props.onFileChange
    /\ Resynchronized
    /\ state.files["/index.js"] = File(CodeA)

\* a message handleMessage has no branch for
Unrecognized(m) ==
    /\ m.type \notin {"state", "start", "status"}
    /\ m.type = "action" => m.action # "show-error"

(* C11: handleMessage called with a message of an unrecognized kind (any   *)
(* type other than state, start, status and action show-error, so also an  *)
(* action with another value and transpiler-context) leaves the store      *)
(* unchanged, raises no error and makes no engine call.                    *)
C11_UnrecognizedIgnored ==
    [][(op'.name = "message" /\ Unrecognized(op'.m) /\ listener) =>
          /\ state' = state
          /\ out' = <<>>
          /\ UNCHANGED <<props, phase, manager, listener>>]_vars

C11_Witness ==
    /\ op.name = "message"
    /\ op.m = TranspilerContext("t1")
    /\ delivered[Len(delivered)].handled
    /\ Len(delivered) = 3
    /\ delivered[2].m = [type |-> "action", action |-> "notification"]
    /\ delivered[2].handled
    /\ Len(state.errors) = 1

(* C12: openFile(path) sets openedPath to path for any path, a key of the  *)
(* file mapping or not, and leaves files, browserPath, errors, status and  *)
(* managerState unchanged, with no engine call and no change callback.     *)
C12_OpenFileOnlyNavigates ==
    [][op'.name = "openFile" =>
          /\ state' = [state EXCEPT !.openedPath = op'.path]
          /\ out' = <<>>
          /\ UNCHANGED <<props, phase, manager, listener, requests, delivered>>]_vars

C12_Witness ==
    /\ op.name = "openFile"
    /\ op.path = "/missing.js"
    /\ state.openedPath = "/missing.js"
    /\ ~HasKey(state.files, "/missing.js")
    /\ state.files = TwoFiles
    /\ manager
    /\ props.onFileChange

(* C13: the provider's handleMessage subscription is made once, by the     *)
(* constructor, stays until componentWillUnmount detaches it, and after    *)
(* the unmount no inbound message changes the store.                       *)
C13_OneSubscriptionUntilUnmount ==
    [][/\ listener' <=> phase' \in {"constructed", "mounted", "crashed"}
       /\ (\E i \in DOMAIN out' :
              out'[i] = [call |-> "listen", callback |-> "handleMessage"])
             => (op'.name = "constructor" /\ ~listener)
       /\ (phase = "unmounted" /\ op'.name = "message") => state' = state]_vars

C13_Witness ==
    /\ phase = "unmounted"
    /\ op.name = "message"
    /\ op.m = ShowError(1)
    /\ ~delivered[Len(delivered)].handled
    /\ delivered[1].handled
    /\ state.errors = <<>>
    /\ ~listener

\* the step is updateCurrentFile(file) with another code than the open file's
DifferentCodeCall ==
    /\ op'.name = "updateCurrentFile"
    /\ Alive
    /\ \/ ~HasKey(state.files, state.openedPath)
       \/ op'.file.code # state.files[state.openedPath].code

\* the step put the file at the open path and touched no other key
ReplacesOnlyOpened ==
    /\ DOMAIN state'.files = DOMAIN state.files \cup {state.openedPath}
    /\ state'.files[state.openedPath] = op'.file
    /\ \A path \in DOMAIN state.files \ {state.openedPath} :
          state'.files[path] = state.files[path]
    /\ state' = [state EXCEPT !.files = state'.files]
    /\ ChangeCallbackOnce(out', props, state'.files)
    /\ \A i \in DOMAIN out' :
          out'[i].call = "updatePreview" => out'[i].files = state'.files

(* C14 as stated: updateCurrentFile(file) with code other than the code    *)
(* stored at the open path puts file at the open path, keeps every other   *)
(* key and value, and goes through updateFiles: one updatePreview, one     *)
(* change callback if configured.                                          *)
C14_AlwaysOnePreview ==
    [][DifferentCodeCall =>
          /\ ReplacesOnlyOpened
          /\ Len(CallsNamed(out', "updatePreview")) = 1]_vars

(* C14, amended: the same, with one updatePreview if the engine handle     *)
(* exists and none if it does not (before the hidden iframe has mounted).  *)
C14_ReplacesOnlyOpened ==
    [][DifferentCodeCall =>
          /\ ReplacesOnlyOpened
          /\ Len(CallsNamed(out', "updatePreview")) = (IF manager THEN 1 ELSE 0)]_vars

C14_Witness ==
    /\ op.name = "updateCurrentFile"
    /\ state.openedPath = "/index.js"
    /\ state.files = [TwoFiles EXCEPT !["/index.js"] = File(CodeB)]
    /\ op.file = File(CodeB)
    /\ manager
    /\ props.onFileChange
    /\ Len(out) = 2

(* C15: a property update that changes files, dependencies, entry or       *)
(* template to props without /package.json and without dependencies or     *)
(* entry throws the configuration error within componentDidUpdate, leaves  *)
(* the stored file mapping unchanged, invokes no change callback and sends *)
(* no updatePreview.                                                       *)
C15_UpdateConfigurationErrorThrows ==
    [][(SyncPropsChanged(op') /\ MissingConfiguration(props')) =>
          /\ Len(out') = 1
          /\ out'[1].call = "throw"
          /\ out'[1].error \in {NoDependenciesError, NoEntryError}
          /\ state' = state
          /\ phase' = "crashed"]_vars

C15_Witness ==
    /\ phase = "crashed"
    /\ op.name = "componentDidUpdate"
    /\ op.dependenciesChanged /\ ~op.filesChanged /\ ~op.entryChanged
    /\ ~props.dependencies.present
    /\ out = <<[call |-> "throw", error |-> NoDependenciesError]>>
    /\ state.files = EditedIndex
    /\ props.onFileChange

\* props.openedPath || props.entry || '/index.js'
DefaultedOpenedPath(p) ==
    IF p.openedPath \notin {Undefined, ""} THEN p.openedPath
    ELSE IF p.entry \notin {Undefined, ""} THEN p.entry
    ELSE "/index.js"

(* C16 as stated: after construction the initial openedPath (the           *)
(* openedPath prop, else entry, else /index.js) is a key of the initial    *)
(* file mapping.                                                           *)
C16_OpenedPathExists ==
    (op.name = "constructor" /\ phase = "constructed")
        => HasKey(state.files, state.openedPath)

(* C16, amended: after construction the initial openedPath is the          *)
(* openedPath prop if non-empty, else entry if non-empty, else /index.js;  *)
(* it is not checked against the file mapping, so it is a key of the       *)
(* initial mapping exactly if it is /package.json or a key of the          *)
(* configured files.                                                       *)
C16_OpenedPathDefaulted ==
    (op.name = "constructor" /\ phase = "constructed") =>
        /\ state.openedPath = DefaultedOpenedPath(props)
        /\ HasKey(state.files, state.openedPath)
              <=> state.openedPath \in DOMAIN props.files \cup {PackageJSON}

C16_Witness ==
    /\ op.name = "constructor"
    /\ phase = "constructed"
    /\ props.openedPath = ""
    /\ props.entry = "/App.js"
    /\ state.openedPath = "/App.js"
    /\ props.files = EditedIndex
    /\ ~HasKey(state.files, state.openedPath)

(***************************************************************************)
(* SpecEngine: the calls that reach the engine, before and after the       *)
(* hidden iframe's mount.                                                  *)
(***************************************************************************)
EngineProps ==
    PropsOver({OnlyIndex}, {ReactDeps}, {"/index.js"}, {Undefined},
              {FALSE, TRUE}, {FALSE, TRUE}, {Undefined})

InitEngine == InitWith(EngineProps)

NextEngine ==
    \/ Construct
    \/ SetupFrame
    \/ UpdateFiles(EditedIndex)
    \/ UpdateCurrentFile(File(CodeA))
    \/ \E p \in EngineProps, fc \in BOOLEAN : ComponentDidUpdate(p, fc, FALSE)
    \/ GetManagerTranspilerContext
    \/ Deliver(TranspilerContext("t1"))
    \/ ComponentWillUnmount

SpecEngine == InitEngine /\ [][NextEngine]_vars

\* the field of the store a recognized message writes, and its new value
WrittenBy(st, m) ==
    IF m.type = "state" THEN [st EXCEPT !.managerState = m.state]
    ELSE IF m.type = "status" THEN [st EXCEPT !.status = m.status]
    ELSE IF m.type = "start" THEN [st EXCEPT !.errors = <<>>]
    ELSE [st EXCEPT !.errors = st.errors \o
             <<[title |-> m.title, path |-> m.path, message |-> m.message,
                line |-> m.line, column |-> m.column]>>]

(* C17: a recognized message changes one field of the store and nothing    *)
(* else: state replaces managerState with the message's snapshot, status   *)
(* replaces status, start and show-error change errors only; files,        *)
(* openedPath and browserPath stay, and no engine call or change callback  *)
(* is made.                                                                *)
C17_MessageWritesOneField ==
    [][(op'.name = "message" /\ ~Unrecognized(op'.m) /\ listener) =>
          /\ state' = WrittenBy(state, op'.m)
          /\ state'.files = state.files
          /\ state'.openedPath = state.openedPath
          /\ state'.browserPath = state.browserPath
          /\ out' = <<>>
          /\ UNCHANGED <<props, phase, manager, listener>>]_vars

C17_Witness ==
    /\ op.name = "message"
    /\ op.m = ManagerStateMsg("s1")
    /\ delivered[Len(delivered)].handled
    /\ state.managerState = "s1"
    /\ Len(state.errors) = 1
    /\ state.status = "idle"
    /\ state.files = EditedIndex
    /\ manager

EngineCalls(calls) ==
    SelectSeq(calls, LAMBDA c : c.call \in {"updatePreview", "updateOptions", "dispatch"})

(* C18: no updatePreview, updateOptions or dispatch call is made before    *)
(* setupFrame has constructed the engine handle; an updateFiles or         *)
(* getManagerTranspilerContext call made before that still sets the state, *)
(* invokes the change callback and registers its listener.                 *)
C18_NoEngineCallBeforeManager ==
    ~manager =>
        /\ EngineCalls(out) = <<>>
        /\ phase \in {"new", "failed", "constructed"}
        /\ op.name = "updateFiles" =>
              /\ state.files = op.files
              /\ ChangeCallbackOnce(out, props, op.files)
        /\ op.name = "updateCurrentFile" /\ out # <<>> =>
              ChangeCallbackOnce(out, props, state.files)
        /\ op.name = "getManagerTranspilerContext" =>
              /\ out = <<[call |-> "listen", callback |-> "transpiler-context"]>>
              /\ requests[Len(requests)].listening
              /\ requests[Len(requests)].status = "pending"

C18_Witness ==
    /\ ~manager
    /\ phase = "constructed"
    /\ op.name = "updateFiles"
    /\ props.onFileChange
    /\ out = <<[call |-> "onFileChange", files |-> EditedIndex]>>
    /\ state.files = EditedIndex
    /\ Len(requests) = 1
    /\ requests[1].listening

(* C19: a transpiler-context message resolves every request pending at     *)
(* its delivery with its data and unsubscribes each one's listener, so a   *)
(* request's listener is subscribed exactly while the request is           *)
(* unresolved; componentWillUnmount leaves these listeners subscribed.     *)
C19_RequestsShareReplies ==
    [][/\ \A i \in DOMAIN requests' :
             requests'[i].listening <=> requests'[i].status = "pending"
       /\ (op'.name = "message" /\ op'.m.type = "transpiler-context") =>
             \A i \in DOMAIN requests :
                 requests[i].status = "pending" =>
                     /\ requests'[i].status = "resolved"
                     /\ requests'[i].data = op'.m.data
       /\ op'.name = "componentWillUnmount" => requests' = requests]_vars

C19_Witness ==
    /\ phase = "unmounted"
    /\ Len(requests) = 2
    /\ requests[1].status = "resolved" /\ requests[1].data = "t2"
    /\ requests[2].status = "resolved" /\ requests[2].data = "t2"
    /\ ~requests[1].listening /\ ~requests[2].listening
    /\ op.name = "message"
    /\ Len(delivered) = 1
    /\ ~delivered[1].handled

============================================================================
